---- MODULE Spec2Model ----
(***************************************************************************)
(* A model of src/proxy.c: the shared cache (a singly linked list guarded  *)
(* by a readers-preference pair of semaphores), the global access counter, *)
(* and the per-connection request pipeline run by each worker thread.      *)
(*                                                                         *)
(* Sizes are scaled: MAX_OBJECT_SIZE and MAX_CACHE_SIZE keep the source's  *)
(* relations (an object never fills the cache, the cache size is no        *)
(* multiple of the object size) with byte counts small enough to hold      *)
(* bodies as explicit byte sequences.                                      *)
(***************************************************************************)
EXTENDS Integers, Sequences, FiniteSets, TLC

\* ------------------------------------------------------------ constants
\* src/proxy.c:6 (102400 in the source, scaled)
MAX_OBJECT_SIZE == 3
\* src/proxy.c:5 (1049000 in the source, scaled)
MAX_CACHE_SIZE == 5

\* ------------------------------------------------------------ bounds
\* connections accepted by main's loop in one run
MaxConns == 3
\* longest chunk one Rio_readlineb call returns (MAXLINE - 1 in the source)
MaxChunk == 2
\* longest origin stream (total_size never exceeds it)
MaxStream == 4

Threads == {"t1", "t2"}

NULL == 0
NUL == "NUL"

\* the widths of int (total_size) and of size_t (n), scaled down with the sizes
INT_BITS == 4

SIZE_BITS == 5

\* header lines a client sends after the request line
MaxHeaders == 2

\* ------------------------------------------------------------ inputs
SeqsUpTo(S, n) == UNION {[1..k -> S] : k \in 0..n}

ChunksOver(B) == SeqsUpTo(B, MaxChunk) \ {<<>>}

\* the header lines a client may send: the name, the colon, one value character
ClientHeaders ==
    {<<"H", "o", "s", "t", ":", "x">>,
     <<"h", "o", "s", "t", ":", "x">>,
     <<"U", "s", "e", "r", "-", "A", "g", "e", "n", "t", ":", "x">>,
     <<"C", "o", "n", "n", "e", "c", "t", "i", "o", "n", ":", "x">>,
     <<"c", "o", "n", "n", "e", "c", "t", "i", "o", "n", ":", "x">>,
     <<"P", "r", "o", "x", "y", "-", "C", "o", "n", "n", "e", "c", "t", "i", "o", "n", ":", "x">>,
     <<"A", "c", "c", "e", "p", "t", ":", "x">>}

\* the header blocks of at most n lines
HeaderBlocks(n) == SeqsUpTo(ClientHeaders, n)

GET == <<"G", "E", "T">>
METHODS == {GET, <<"g", "e", "t">>, <<"P", "O", "S", "T">>}

\* inputs of the concurrent specification
MainInputs ==
    [uris    |-> {<<"a">>, <<"a", "/">>},
     methods |-> METHODS,
     bytes   |-> {1},
     chunks  |-> ChunksOver({1}),
     blocks  |-> {<<>>},
     conns   |-> MaxConns,
     stream  |-> MaxStream]

\* inputs of the single-connection specification of the streaming loop
TeeInputs ==
    [uris    |-> {<<"a">>, <<"b">>, <<"c">>},
     methods |-> {GET},
     bytes   |-> {0, 1},
     chunks  |-> ChunksOver({0, 1}),
     blocks  |-> {<<>>},
     conns   |-> MaxConns,
     stream  |-> MaxStream]

\* inputs of the single-connection specification of the lookup
MatchInputs ==
    [uris    |-> {<<"a">>, <<"a", "/">>, <<"a", "b">>, <<"/">>},
     methods |-> {GET},
     bytes   |-> {1},
     chunks  |-> {<<1>>},
     blocks  |-> {<<>>},
     conns   |-> MaxConns,
     stream  |-> MaxStream]

\* inputs of the single-connection specification of the header block
HeaderInputs ==
    [uris    |-> {<<"a">>, <<"b">>, <<"c">>},
     methods |-> {GET},
     bytes   |-> {1},
     chunks  |-> {<<1, 1>>},
     blocks  |-> HeaderBlocks(MaxHeaders),
     conns   |-> MaxConns,
     stream  |-> MaxStream]

\* inputs of the specification of concurrent hits on two entries: two
\* admissions and then two lookups, one connection more than MaxConns
RaceInputs ==
    [uris    |-> {<<"a">>, <<"b">>, <<"c">>},
     methods |-> {GET},
     bytes   |-> {1},
     chunks  |-> {<<1, 1>>},
     blocks  |-> {<<>>},
     conns   |-> MaxConns + 1,
     stream  |-> MaxStream]

\* inputs of the specification of progress through the gate
LiveInputs ==
    [uris    |-> {<<"a">>, <<"b">>, <<"c">>},
     methods |-> {GET},
     bytes   |-> {1},
     chunks  |-> {<<1, 1>>},
     blocks  |-> {<<>>},
     conns   |-> MaxConns,
     stream  |-> MaxStream]

\* inputs of the specification of long streams: as many bytes as an int counts
LongInputs ==
    [uris    |-> {<<"a">>, <<"b">>},
     methods |-> {GET},
     bytes   |-> {1},
     chunks  |-> ChunksOver({1}),
     blocks  |-> {<<>>},
     conns   |-> MaxConns,
     stream  |-> 2 ^ INT_BITS]

\* ------------------------------------------------------------ state
VARIABLES
    cache,          \* global_cache.first: the list, head first
    current_size,   \* global_cache.current_size
    readers,        \* global_cache.readers
    read_lock,      \* global_cache.read_lock (semaphore value)
    write_lock,     \* global_cache.write_lock (semaphore value)
    access_counter, \* access_counter
    accepted,       \* connections main has accepted
    evicted,        \* the last victim remove_oldest freed in the running admission
    pc,             \* where each thread is
    method,         \* process_request: method
    uri,            \* process_request: uri
    cached,         \* check_cache: current / process_request: cached
    reg,            \* update_counter: the value loaded / returned by ++access_counter
    object_buffer,  \* process_request: object_buffer
    total_size,     \* process_request: total_size
    client_out,     \* what has been written to client_fd
    probed,         \* check_cache was called for this connection
    opened,         \* Open_clientfd was called for this connection
    client_fd,      \* handle_client: client_fd, "open" or "closed"
    server_fd,      \* process_request: server_fd, "none", "open", "bad" or "closed"
    server_out      \* what has been written to server_fd: the header lines

shared == <<cache, current_size, readers, read_lock, write_lock, access_counter,
            accepted, evicted>>
locals == <<pc, method, uri, cached, reg, object_buffer, total_size, client_out,
            probed, opened, client_fd, server_fd, server_out>>
sockets == <<client_fd, server_fd, server_out>>
vars == <<cache, current_size, readers, read_lock, write_lock, access_counter,
          accepted, evicted, pc, method, uri, cached, reg, object_buffer,
          total_size, client_out, probed, opened, client_fd, server_fd,
          server_out>>

\* ------------------------------------------------------------ helpers
ZeroBuffer == [i \in 1..MAX_OBJECT_SIZE |-> 0]

NoOutput == [err |-> "none", bytes |-> <<>>]

NoEviction == [time |-> 0, times |-> {}]

Lower(c) ==
    CASE c = "A" -> "a"
      [] c = "C" -> "c"
      [] c = "E" -> "e"
      [] c = "G" -> "g"
      [] c = "H" -> "h"
      [] c = "O" -> "o"
      [] c = "P" -> "p"
      [] c = "S" -> "s"
      [] c = "T" -> "t"
      [] c = "U" -> "u"
      [] OTHER -> c

\* 0 when the strings are equal ignoring case, nonzero otherwise
strcasecmp(s1, s2) ==
    IF Len(s1) = Len(s2) /\ \A i \in 1..Len(s1) : Lower(s1[i]) = Lower(s2[i])
    THEN 0 ELSE 1

strcmp(s1, s2) == IF s1 = s2 THEN 0 ELSE 1

CharAt(s, i) == IF i <= Len(s) THEN s[i] ELSE NUL

RECURSIVE strncmp_from(_, _, _, _)
strncmp_from(s1, s2, i, n) ==
    IF i > n THEN 0
    ELSE IF CharAt(s1, i) # CharAt(s2, i) THEN 1
    ELSE IF CharAt(s1, i) = NUL THEN 0
    ELSE strncmp_from(s1, s2, i + 1, n)

strncmp(s1, s2, n) == strncmp_from(s1, s2, 1, n)

\* the condition of check_cache's loop body
Matches(url, u) ==
    \/ strcmp(url, u) = 0
    \/ /\ u[Len(u)] = "/"
       /\ strncmp(u, url, Len(u) - 1) = 0

\* check_cache's for loop: the index of the first matching node, 0 when none
RECURSIVE ScanFrom(_, _, _)
ScanFrom(c, u, i) ==
    IF i > Len(c) THEN 0
    ELSE IF Matches(c[i].url, u) THEN i
    ELSE ScanFrom(c, u, i + 1)

IndexOfId(c, id) ==
    IF \E i \in 1..Len(c) : c[i].id = id
    THEN CHOOSE i \in 1..Len(c) : c[i].id = id
    ELSE 0

IsLinked(c, id) == IndexOfId(c, id) # 0

\* malloc: an address no live node and no thread's pointer holds
FreshId(c, held) ==
    CHOOSE id \in 1..(Len(c) + Cardinality(Threads) + 1) :
        /\ ~IsLinked(c, id)
        /\ id \notin held
        /\ \A j \in 1..(id - 1) : IsLinked(c, j) \/ j \in held

RemoveAt(c, i) == SubSeq(c, 1, i - 1) \o SubSeq(c, i + 1, Len(c))

\* ScanOldest with the comparison reversed
RECURSIVE ScanOldest_Newest(_, _, _, _)
ScanOldest_Newest(c, i, oldest, to_remove) ==
    IF i > Len(c) THEN to_remove
    ELSE IF c[i].access_time > oldest
         THEN ScanOldest_Newest(c, i + 1, c[i].access_time, i)
         ELSE ScanOldest_Newest(c, i + 1, oldest, to_remove)

\* remove_oldest's while loop: the index of to_remove
RECURSIVE ScanOldest(_, _, _, _)
ScanOldest(c, i, oldest, to_remove) ==
    IF i > Len(c) THEN to_remove
    ELSE IF c[i].access_time < oldest
         THEN ScanOldest(c, i + 1, c[i].access_time, i)
         ELSE ScanOldest(c, i + 1, oldest, to_remove)

OldestIndex(c) == ScanOldest(c, 1, c[1].access_time, 1)

\* the access times of the nodes linked in the list
Times(c) == {c[i].access_time : i \in 1..Len(c)}

\* a value stored in an int: two's complement wrap-around
ToInt(x) ==
    LET m == x % (2 ^ INT_BITS)
    IN IF m >= 2 ^ (INT_BITS - 1) THEN m - 2 ^ INT_BITS ELSE m

\* a value converted to size_t
ToSizeT(x) == x % (2 ^ SIZE_BITS)

\* total_size + n < MAX_OBJECT_SIZE, computed in size_t as int + size_t is
CopyTest(total, n) == ToSizeT(ToSizeT(total) + n) < MAX_OBJECT_SIZE

\* memcpy(object_buffer + off, chunk, Len(chunk)); only the bytes that land
\* inside the buffer are kept
memcpy(buf, off, chunk) ==
    [i \in 1..MAX_OBJECT_SIZE |->
        IF i > off /\ i <= off + Len(chunk) THEN chunk[i - off] ELSE buf[i]]

\* ------------------------------------------------------------ extract_uri
\* strstr(uri, "//"): the index of the first "//", 0 when there is none
RECURSIVE strstr_slashes(_, _)
strstr_slashes(u, i) ==
    IF i + 1 > Len(u) THEN 0
    ELSE IF u[i] = "/" /\ u[i + 1] = "/" THEN i
    ELSE strstr_slashes(u, i + 1)

\* the while loop that advances host_end to '/', ':' or the end
RECURSIVE host_end_from(_, _)
host_end_from(u, i) ==
    IF CharAt(u, i) \in {"/", ":", NUL} THEN i ELSE host_end_from(u, i + 1)

\* strchr(s + i, '/'): the index of the first '/' at or after i, 0 when none
RECURSIVE strchr_slash(_, _)
strchr_slash(u, i) ==
    IF i > Len(u) THEN 0
    ELSE IF u[i] = "/" THEN i
    ELSE strchr_slash(u, i + 1)

extract_uri(u) ==
    LET dbl        == strstr_slashes(u, 1)
        host_start == IF dbl # 0 THEN dbl + 2 ELSE 1
        host_end   == host_end_from(u, host_start)
        host       == SubSeq(u, host_start, host_end - 1)
        port_start == host_end + 1
        port_end   == strchr_slash(u, port_start)
    IN  IF CharAt(u, host_end) = ":"
        THEN IF port_end # 0
             THEN [host |-> host,
                   port |-> SubSeq(u, port_start, port_end - 1),
                   path |-> SubSeq(u, port_end, Len(u))]
             ELSE [host |-> host,
                   port |-> SubSeq(u, port_start, Len(u)),
                   path |-> <<"/">>]
        ELSE [host |-> host,
              port |-> <<"8", "0">>,
              path |-> SubSeq(u, host_end, Len(u))]

\* the Host line of request_header
HostHeader(host) == <<"H", "o", "s", "t", ":">> \o host

\* ------------------------------------------------------------ process_headers
user_agent == <<"U", "s", "e", "r", "-", "A", "g", "e", "n", "t", ":", "m">>
connection_hdr == <<"C", "o", "n", "n", "e", "c", "t", "i", "o", "n", ":", "c">>
proxy_connection == <<"P", "r", "o", "x", "y", "-", "C", "o", "n", "n", "e", "c", "t", "i", "o", "n", ":", "c">>

\* the test that drops a client header line
Suppressed(buf) ==
    \/ strncmp(buf, <<"H", "o", "s", "t", ":">>, 5) = 0
    \/ strncmp(buf, <<"U", "s", "e", "r", "-", "A", "g", "e", "n", "t", ":">>, 11) = 0
    \/ strncmp(buf, <<"C", "o", "n", "n", "e", "c", "t", "i", "o", "n", ":">>, 11) = 0
    \/ strncmp(buf, <<"P", "r", "o", "x", "y", "-", "C", "o", "n", "n", "e", "c", "t", "i", "o", "n", ":">>, 17) = 0

\* the while loop over the client's header lines, up to the blank line
RECURSIVE RelayHeaders(_, _)
RelayHeaders(block, i) ==
    IF i > Len(block) THEN <<>>
    ELSE IF Suppressed(block[i]) THEN RelayHeaders(block, i + 1)
    ELSE <<block[i]>> \o RelayHeaders(block, i + 1)

\* what process_request and process_headers write to server_fd
OriginHeaders(u, block) ==
    <<HostHeader(extract_uri(u).host), user_agent, connection_hdr, proxy_connection>>
        \o RelayHeaders(block, 1)

\* ------------------------------------------------------------ initial state
Init ==
    /\ cache = <<>>
    /\ current_size = 0
    /\ readers = 0
    /\ read_lock = 1
    /\ write_lock = 1
    /\ access_counter = 0
    /\ accepted = 0
    /\ evicted = NoEviction
    /\ pc = [t \in Threads |-> "idle"]
    /\ method = [t \in Threads |-> <<>>]
    /\ uri = [t \in Threads |-> <<>>]
    /\ cached = [t \in Threads |-> NULL]
    /\ reg = [t \in Threads |-> 0]
    /\ object_buffer = [t \in Threads |-> ZeroBuffer]
    /\ total_size = [t \in Threads |-> 0]
    /\ client_out = [t \in Threads |-> NoOutput]
    /\ probed = [t \in Threads |-> FALSE]
    /\ opened = [t \in Threads |-> FALSE]
    /\ client_fd = [t \in Threads |-> "closed"]
    /\ server_fd = [t \in Threads |-> "none"]
    /\ server_out = [t \in Threads |-> <<>>]

\* ------------------------------------------------------------ handle_client
\* main accepts a connection and a thread reads its request line
ReadRequestLine(t, I) ==
    /\ pc[t] = "idle"
    /\ accepted < I.conns
    /\ accepted' = accepted + 1
    /\ client_fd' = [client_fd EXCEPT ![t] = "open"]
    /\ \/ \E m \in I.methods, u \in I.uris :
            /\ method' = [method EXCEPT ![t] = m]
            /\ uri' = [uri EXCEPT ![t] = u]
            /\ pc' = [pc EXCEPT ![t] = "validate"]
       \/ /\ pc' = [pc EXCEPT ![t] = "close"]
          /\ UNCHANGED <<method, uri>>
    /\ UNCHANGED <<cache, current_size, readers, read_lock, write_lock,
                   access_counter, evicted, cached, reg, object_buffer,
                   total_size, client_out, probed, opened, server_fd, server_out>>

\* ValidateMethod without the return after send_error
ValidateMethod_NoReturn(t) ==
    /\ pc[t] = "validate"
    /\ IF strcasecmp(method[t], GET) # 0
       THEN client_out' = [client_out EXCEPT ![t] = [err |-> "501", bytes |-> <<>>]]
       ELSE UNCHANGED client_out
    /\ probed' = [probed EXCEPT ![t] = TRUE]
    /\ pc' = [pc EXCEPT ![t] = "cc_enter"]
    /\ UNCHANGED <<shared, method, uri, cached, reg, object_buffer, total_size,
                   opened>>
    /\ UNCHANGED sockets

\* the method gate: send_error(501) and return, or go on to check_cache
ValidateMethod(t) ==
    /\ pc[t] = "validate"
    /\ IF strcasecmp(method[t], GET) # 0
       THEN /\ client_out' = [client_out EXCEPT ![t] = [err |-> "501", bytes |-> <<>>]]
            /\ pc' = [pc EXCEPT ![t] = "close"]
            /\ UNCHANGED probed
       ELSE /\ probed' = [probed EXCEPT ![t] = TRUE]
            /\ pc' = [pc EXCEPT ![t] = "cc_enter"]
            /\ UNCHANGED client_out
    /\ UNCHANGED <<shared, method, uri, cached, reg, object_buffer, total_size,
                   opened>>
    /\ UNCHANGED sockets

\* ------------------------------------------------------------ check_cache
\* ReaderEnter with the first reader not taking write_lock
ReaderEnter_NoWriteLock(t) ==
    /\ pc[t] = "cc_enter"
    /\ read_lock = 1
    /\ read_lock' = 0
    /\ readers' = readers + 1
    /\ pc' = [pc EXCEPT ![t] = "cc_entered"]
    /\ UNCHANGED <<cache, current_size, write_lock, access_counter, accepted,
                   evicted, method, uri, cached, reg, object_buffer, total_size,
                   client_out, probed, opened>>
    /\ UNCHANGED sockets

\* P(read_lock); readers++
ReaderEnter(t) ==
    /\ pc[t] = "cc_enter"
    /\ read_lock = 1
    /\ read_lock' = 0
    /\ readers' = readers + 1
    /\ pc' = [pc EXCEPT ![t] = IF readers + 1 = 1 THEN "cc_first" ELSE "cc_entered"]
    /\ UNCHANGED <<cache, current_size, write_lock, access_counter, accepted,
                   evicted, method, uri, cached, reg, object_buffer, total_size,
                   client_out, probed, opened>>
    /\ UNCHANGED sockets

\* the first reader: P(write_lock), holding read_lock
ReaderLockWriters(t) ==
    /\ pc[t] = "cc_first"
    /\ write_lock = 1
    /\ write_lock' = 0
    /\ pc' = [pc EXCEPT ![t] = "cc_entered"]
    /\ UNCHANGED <<cache, current_size, readers, read_lock, access_counter,
                   accepted, evicted, method, uri, cached, reg, object_buffer,
                   total_size, client_out, probed, opened>>
    /\ UNCHANGED sockets

\* V(read_lock)
ReaderEntered(t) ==
    /\ pc[t] = "cc_entered"
    /\ read_lock' = 1
    /\ pc' = [pc EXCEPT ![t] = "cc_scan"]
    /\ UNCHANGED <<cache, current_size, readers, write_lock, access_counter,
                   accepted, evicted, method, uri, cached, reg, object_buffer,
                   total_size, client_out, probed, opened>>
    /\ UNCHANGED sockets

\* the for loop up to the match (or the end of the list)
Scan(t) ==
    /\ pc[t] = "cc_scan"
    /\ LET i == ScanFrom(cache, uri[t], 1) IN
         IF i = 0
         THEN /\ cached' = [cached EXCEPT ![t] = NULL]
              /\ pc' = [pc EXCEPT ![t] = "cc_leave"]
         ELSE /\ cached' = [cached EXCEPT ![t] = cache[i].id]
              /\ pc' = [pc EXCEPT ![t] = "cc_load"]
    /\ UNCHANGED <<shared, method, uri, reg, object_buffer, total_size,
                   client_out, probed, opened>>
    /\ UNCHANGED sockets

\* update_counter, first half of ++access_counter: load
CounterLoad(t) ==
    /\ pc[t] = "cc_load"
    /\ reg' = [reg EXCEPT ![t] = access_counter]
    /\ pc' = [pc EXCEPT ![t] = "cc_store"]
    /\ UNCHANGED <<shared, method, uri, cached, object_buffer, total_size,
                   client_out, probed, opened>>
    /\ UNCHANGED sockets

\* update_counter, second half of ++access_counter: store, return the new value
CounterStore(t) ==
    /\ pc[t] = "cc_store"
    /\ access_counter' = reg[t] + 1
    /\ reg' = [reg EXCEPT ![t] = reg[t] + 1]
    /\ pc' = [pc EXCEPT ![t] = "cc_stamp"]
    /\ UNCHANGED <<cache, current_size, readers, read_lock, write_lock, accepted,
                   evicted, method, uri, cached, object_buffer, total_size,
                   client_out, probed, opened>>
    /\ UNCHANGED sockets

\* current->access_time = (the returned value); break
Stamp(t) ==
    /\ pc[t] = "cc_stamp"
    /\ LET i == IndexOfId(cache, cached[t]) IN
         cache' = [cache EXCEPT ![i].access_time = reg[t]]
    /\ reg' = [reg EXCEPT ![t] = 0]
    /\ pc' = [pc EXCEPT ![t] = "cc_leave"]
    /\ UNCHANGED <<current_size, readers, read_lock, write_lock, access_counter,
                   accepted, evicted, method, uri, cached, object_buffer,
                   total_size, client_out, probed, opened>>
    /\ UNCHANGED sockets

\* ReaderLeave whose last reader does not V(write_lock)
ReaderLeave_NoRelease(t) ==
    /\ pc[t] = "cc_leave"
    /\ read_lock = 1
    /\ read_lock' = 0
    /\ readers' = readers - 1
    /\ write_lock' = write_lock
    /\ pc' = [pc EXCEPT ![t] = "cc_left"]
    /\ UNCHANGED <<cache, current_size, access_counter, accepted, evicted,
                   method, uri, cached, reg, object_buffer, total_size,
                   client_out, probed, opened>>
    /\ UNCHANGED sockets

\* P(read_lock); readers--; the last reader: V(write_lock)
ReaderLeave(t) ==
    /\ pc[t] = "cc_leave"
    /\ read_lock = 1
    /\ read_lock' = 0
    /\ readers' = readers - 1
    /\ write_lock' = IF readers - 1 = 0 THEN write_lock + 1 ELSE write_lock
    /\ pc' = [pc EXCEPT ![t] = "cc_left"]
    /\ UNCHANGED <<cache, current_size, access_counter, accepted, evicted,
                   method, uri, cached, reg, object_buffer, total_size,
                   client_out, probed, opened>>
    /\ UNCHANGED sockets

\* V(read_lock); return current
ReaderLeft(t) ==
    /\ pc[t] = "cc_left"
    /\ read_lock' = 1
    /\ pc' = [pc EXCEPT ![t] = IF cached[t] # NULL THEN "serve" ELSE "forward"]
    /\ UNCHANGED <<cache, current_size, readers, write_lock, access_counter,
                   accepted, evicted, method, uri, cached, reg, object_buffer,
                   total_size, client_out, probed, opened>>
    /\ UNCHANGED sockets

\* ------------------------------------------------------------ process_request
\* ServeFromCache without the return after the write
ServeFromCache_NoReturn(t, I) ==
    /\ pc[t] = "serve"
    /\ LET i == IndexOfId(cache, cached[t]) IN
         IF i # 0
         THEN client_out' = [client_out EXCEPT ![t] =
                  [err |-> "none", bytes |-> SubSeq(cache[i].content, 1, cache[i].content_size)]]
         ELSE \E g \in SeqsUpTo(I.bytes \cup {0}, MAX_OBJECT_SIZE) :
                  client_out' = [client_out EXCEPT ![t] = [err |-> "none", bytes |-> g]]
    /\ pc' = [pc EXCEPT ![t] = "forward"]
    /\ UNCHANGED <<shared, method, uri, cached, reg, object_buffer, total_size,
                   probed, opened>>
    /\ UNCHANGED sockets

\* a hit: Rio_writen(client_fd, cached->content, cached->content_size).
\* A node freed since check_cache returned is read after free: any bytes.
ServeFromCache(t, I) ==
    /\ pc[t] = "serve"
    /\ LET i == IndexOfId(cache, cached[t]) IN
         IF i # 0
         THEN client_out' = [client_out EXCEPT ![t] =
                  [err |-> "none", bytes |-> SubSeq(cache[i].content, 1, cache[i].content_size)]]
         ELSE \E g \in SeqsUpTo(I.bytes \cup {0}, MAX_OBJECT_SIZE) :
                  client_out' = [client_out EXCEPT ![t] = [err |-> "none", bytes |-> g]]
    /\ pc' = [pc EXCEPT ![t] = "close"]
    /\ UNCHANGED <<shared, method, uri, cached, reg, object_buffer, total_size,
                   probed, opened>>
    /\ UNCHANGED sockets

\* a miss: extract_uri, Open_clientfd, the request header block, process_headers
ConnectOrigin(t, I) ==
    /\ pc[t] = "forward"
    /\ opened' = [opened EXCEPT ![t] = TRUE]
    /\ server_fd' = [server_fd EXCEPT ![t] = "open"]
    /\ \E block \in I.blocks :
         server_out' = [server_out EXCEPT ![t] = OriginHeaders(uri[t], block)]
    /\ object_buffer' = [object_buffer EXCEPT ![t] = ZeroBuffer]
    /\ total_size' = [total_size EXCEPT ![t] = 0]
    /\ pc' = [pc EXCEPT ![t] = "stream"]
    /\ UNCHANGED <<shared, method, uri, cached, reg, client_out, probed, client_fd>>

\* a miss whose Open_clientfd fails. process_request has no test of the
\* descriptor and no 502 path: either the call ends the process, or it returns
\* a negative descriptor that lines 205-221 go on to use.
ConnectFails(t) ==
    /\ pc[t] = "forward"
    /\ server_fd' = [server_fd EXCEPT ![t] = "bad"]
    /\ \/ /\ pc' = [x \in Threads |-> "exited"]
          /\ UNCHANGED <<opened, object_buffer, total_size>>
       \/ /\ pc' = [pc EXCEPT ![t] = "stream"]
          /\ opened' = [opened EXCEPT ![t] = TRUE]
          /\ object_buffer' = [object_buffer EXCEPT ![t] = ZeroBuffer]
          /\ total_size' = [total_size EXCEPT ![t] = 0]
    /\ UNCHANGED <<shared, method, uri, cached, reg, client_out, probed,
                   client_fd, server_out>>

\* ReadChunk with total_size counting only the bytes copied
ReadChunk_CountsCopied(t, I) ==
    /\ pc[t] = "stream"
    /\ \E chunk \in I.chunks :
         LET n == Len(chunk) IN
         /\ Len(client_out[t].bytes) + n <= I.stream
         /\ IF CopyTest(total_size[t], n)
            THEN /\ object_buffer' = [object_buffer EXCEPT ![t] =
                        memcpy(object_buffer[t], total_size[t], chunk)]
                 /\ total_size' = [total_size EXCEPT ![t] = ToInt(total_size[t] + n)]
            ELSE UNCHANGED <<object_buffer, total_size>>
         /\ client_out' = [client_out EXCEPT ![t].bytes = client_out[t].bytes \o chunk]
    /\ UNCHANGED <<shared, pc, method, uri, cached, reg, probed, opened>>
    /\ UNCHANGED sockets

\* one iteration of the streaming loop: a chunk of n bytes from the origin
ReadChunk(t, I) ==
    /\ pc[t] = "stream"
    /\ \E chunk \in I.chunks :
         LET n == Len(chunk) IN
         /\ Len(client_out[t].bytes) + n <= I.stream
         /\ object_buffer' = [object_buffer EXCEPT ![t] =
                IF CopyTest(total_size[t], n)
                THEN memcpy(object_buffer[t], total_size[t], chunk)
                ELSE object_buffer[t]]
         /\ total_size' = [total_size EXCEPT ![t] = ToInt(total_size[t] + n)]
         /\ client_out' = [client_out EXCEPT ![t].bytes = client_out[t].bytes \o chunk]
    /\ UNCHANGED <<shared, pc, method, uri, cached, reg, probed, opened>>
    /\ UNCHANGED sockets

\* EndOfStream without Close(server_fd)
EndOfStream_NoClose(t) ==
    /\ pc[t] = "stream"
    /\ server_fd' = server_fd
    /\ pc' = [pc EXCEPT ![t] = IF total_size[t] <= MAX_OBJECT_SIZE THEN "add_enter" ELSE "close"]
    /\ UNCHANGED <<shared, method, uri, cached, reg, object_buffer, total_size,
                   client_out, probed, opened, client_fd, server_out>>

\* the origin's EOF: Close(server_fd), then the admission test
EndOfStream(t) ==
    /\ pc[t] = "stream"
    /\ server_fd' = [server_fd EXCEPT ![t] = "closed"]
    /\ pc' = [pc EXCEPT ![t] = IF total_size[t] <= MAX_OBJECT_SIZE THEN "add_enter" ELSE "close"]
    /\ UNCHANGED <<shared, method, uri, cached, reg, object_buffer, total_size,
                   client_out, probed, opened, client_fd, server_out>>

\* ------------------------------------------------------------ add_to_cache
\* a call add_to_cache(cache, uri, buffer, size) by any caller, with any size
AdmitCall(t, I) ==
    /\ pc[t] = "idle"
    /\ accepted < I.conns
    /\ accepted' = accepted + 1
    /\ \E u \in I.uris, size \in 0..I.stream :
         /\ uri' = [uri EXCEPT ![t] = u]
         /\ total_size' = [total_size EXCEPT ![t] = size]
         /\ object_buffer' = [object_buffer EXCEPT ![t] =
                [i \in 1..(IF size > MAX_OBJECT_SIZE THEN size ELSE MAX_OBJECT_SIZE) |->
                    IF i <= size THEN 1 ELSE 0]]
    /\ pc' = [pc EXCEPT ![t] = "add_enter"]
    /\ UNCHANGED <<cache, current_size, readers, read_lock, write_lock,
                   access_counter, evicted, method, cached, reg, client_out,
                   probed, opened>>
    /\ UNCHANGED sockets

\* WriterEnter without the test of size against MAX_OBJECT_SIZE
WriterEnter_NoSizeTest(t) ==
    /\ pc[t] = "add_enter"
    /\ write_lock = 1
    /\ write_lock' = 0
    /\ pc' = [pc EXCEPT ![t] = "add_loop"]
    /\ UNCHANGED <<cache, current_size, readers, read_lock, access_counter,
                   accepted, evicted, method, uri, cached, reg, object_buffer,
                   total_size, client_out, probed, opened>>
    /\ UNCHANGED sockets

\* the size test, then P(write_lock)
WriterEnter(t) ==
    /\ pc[t] = "add_enter"
    /\ IF total_size[t] > MAX_OBJECT_SIZE
       THEN /\ pc' = [pc EXCEPT ![t] = "close"]
            /\ UNCHANGED write_lock
       ELSE /\ write_lock = 1
            /\ write_lock' = 0
            /\ pc' = [pc EXCEPT ![t] = "add_loop"]
    /\ UNCHANGED <<cache, current_size, readers, read_lock, access_counter,
                   accepted, evicted, method, uri, cached, reg, object_buffer,
                   total_size, client_out, probed, opened>>
    /\ UNCHANGED sockets

\* NeedsRoom without the size of the object being admitted
NeedsRoom_IgnoresSize(t) == current_size > MAX_CACHE_SIZE

\* the condition of add_to_cache's while loop
NeedsRoom(t) == current_size + total_size[t] > MAX_CACHE_SIZE

\* one iteration of the while loop: remove_oldest
Evict(t) ==
    /\ pc[t] = "add_loop"
    /\ NeedsRoom(t)
    /\ IF cache = <<>>
       THEN UNCHANGED <<cache, current_size, evicted>>
       ELSE LET i == OldestIndex(cache) IN
            /\ cache' = RemoveAt(cache, i)
            /\ current_size' = current_size - cache[i].content_size
            /\ evicted' = [time |-> cache[i].access_time, times |-> Times(cache)]
    /\ UNCHANGED <<readers, read_lock, write_lock, access_counter, accepted,
                   locals>>

\* Insert without current_size += size
Insert_NoAdd(t) ==
    /\ pc[t] = "add_loop"
    /\ ~NeedsRoom(t)
    /\ LET held == {cached[x] : x \in Threads}
           new_node == [id           |-> FreshId(cache, held),
                        url          |-> uri[t],
                        content      |-> memcpy(ZeroBuffer, 0, SubSeq(object_buffer[t], 1, total_size[t])),
                        content_size |-> total_size[t],
                        access_time  |-> access_counter + 1]
       IN cache' = <<new_node>> \o cache
    /\ access_counter' = access_counter + 1
    /\ current_size' = current_size
    /\ pc' = [pc EXCEPT ![t] = "add_leave"]
    /\ UNCHANGED <<readers, read_lock, write_lock, accepted, evicted, method,
                   uri, cached, reg, object_buffer, total_size, client_out,
                   probed, opened>>
    /\ UNCHANGED sockets

\* the new node: malloc, strcpy, memcpy, update_counter, link at the head
Insert(t) ==
    /\ pc[t] = "add_loop"
    /\ ~NeedsRoom(t)
    /\ LET held == {cached[x] : x \in Threads}
           new_node == [id           |-> FreshId(cache, held),
                        url          |-> uri[t],
                        content      |-> memcpy(ZeroBuffer, 0, SubSeq(object_buffer[t], 1, total_size[t])),
                        content_size |-> total_size[t],
                        access_time  |-> access_counter + 1]
       IN cache' = <<new_node>> \o cache
    /\ access_counter' = access_counter + 1
    /\ current_size' = current_size + total_size[t]
    /\ pc' = [pc EXCEPT ![t] = "add_leave"]
    /\ UNCHANGED <<readers, read_lock, write_lock, accepted, evicted, method,
                   uri, cached, reg, object_buffer, total_size, client_out,
                   probed, opened>>
    /\ UNCHANGED sockets

\* V(write_lock); return
WriterLeave(t) ==
    /\ pc[t] = "add_leave"
    /\ write_lock' = write_lock + 1
    /\ evicted' = NoEviction
    /\ pc' = [pc EXCEPT ![t] = "close"]
    /\ UNCHANGED <<cache, current_size, readers, read_lock, access_counter,
                   accepted, method, uri, cached, reg, object_buffer, total_size,
                   client_out, probed, opened>>
    /\ UNCHANGED sockets

\* ------------------------------------------------------------ handle_client
\* process_request has returned: Close(client_fd); the thread ends
CloseClient(t) ==
    /\ pc[t] = "close"
    /\ pc' = [pc EXCEPT ![t] = "idle"]
    /\ method' = [method EXCEPT ![t] = <<>>]
    /\ uri' = [uri EXCEPT ![t] = <<>>]
    /\ cached' = [cached EXCEPT ![t] = NULL]
    /\ object_buffer' = [object_buffer EXCEPT ![t] = ZeroBuffer]
    /\ total_size' = [total_size EXCEPT ![t] = 0]
    /\ client_out' = [client_out EXCEPT ![t] = NoOutput]
    /\ probed' = [probed EXCEPT ![t] = FALSE]
    /\ opened' = [opened EXCEPT ![t] = FALSE]
    /\ client_fd' = [client_fd EXCEPT ![t] = "closed"]
    /\ server_fd' = [server_fd EXCEPT ![t] = "none"]
    /\ server_out' = [server_out EXCEPT ![t] = <<>>]
    /\ UNCHANGED <<shared, reg>>

\* ------------------------------------------------------------ specifications
Step(t, I) ==
    \/ ReadRequestLine(t, I)
    \/ ValidateMethod(t)
    \/ ReaderEnter(t)
    \/ ReaderLockWriters(t)
    \/ ReaderEntered(t)
    \/ Scan(t)
    \/ CounterLoad(t)
    \/ CounterStore(t)
    \/ Stamp(t)
    \/ ReaderLeave(t)
    \/ ReaderLeft(t)
    \/ ServeFromCache(t, I)
    \/ ConnectOrigin(t, I)
    \/ ReadChunk(t, I)
    \/ EndOfStream(t)
    \/ WriterEnter(t)
    \/ Evict(t)
    \/ Insert(t)
    \/ WriterLeave(t)
    \/ CloseClient(t)

\* every thread, any interleaving
Next == \E t \in Threads : Step(t, MainInputs)

Spec == Init /\ [][Next]_vars

\* one connection at a time, every stream of bytes
NextTee == Step("t1", TeeInputs)

SpecTee == Init /\ [][NextTee]_vars

\* one connection at a time, the URIs the matching rule tells apart
NextMatch == Step("t1", MatchInputs)

SpecMatch == Init /\ [][NextMatch]_vars

\* one connection at a time, every block of client headers
NextHeaders == Step("t1", HeaderInputs)

SpecHeaders == Init /\ [][NextHeaders]_vars

\* every thread, any interleaving, origins that may refuse the connection
NextConnect == Next \/ \E t \in Threads : ConnectFails(t)

SpecConnect == Init /\ [][NextConnect]_vars

\* every thread, any interleaving, four connections
NextRace == \E t \in Threads : Step(t, RaceInputs)

SpecRace == Init /\ [][NextRace]_vars

\* add_to_cache on its own: every thread, calls with every size
NextAdmit ==
    \E t \in Threads :
        \/ AdmitCall(t, TeeInputs)
        \/ WriterEnter(t)
        \/ Evict(t)
        \/ Insert(t)
        \/ WriterLeave(t)
        \/ CloseClient(t)

SpecAdmit == Init /\ [][NextAdmit]_vars

\* the steps of a thread inside check_cache and add_to_cache
GateStep(t) ==
    \/ ReaderEnter(t)
    \/ ReaderLockWriters(t)
    \/ ReaderEntered(t)
    \/ Scan(t)
    \/ CounterLoad(t)
    \/ CounterStore(t)
    \/ Stamp(t)
    \/ ReaderLeave(t)
    \/ ReaderLeft(t)
    \/ WriterEnter(t)
    \/ Evict(t)
    \/ Insert(t)
    \/ WriterLeave(t)

\* every thread, any interleaving
NextLive == \E t \in Threads : Step(t, LiveInputs)

\* a thread that can take a step inside check_cache or add_to_cache is
\* scheduled in the end; nothing is assumed of clients and origins
SpecLive == Init /\ [][NextLive]_vars /\ \A t \in Threads : WF_vars(GateStep(t))

\* one connection at a time, streams long enough for total_size to wrap
NextLong == Step("t1", LongInputs)

SpecLong == Init /\ [][NextLong]_vars

\* ------------------------------------------------------------ properties
\* a thread between P(write_lock) and V(write_lock) in add_to_cache
InAdmission(t) == pc[t] \in {"add_loop", "add_leave"}

\* a thread between check_cache's entry and exit protocols
InLookup(t) == pc[t] \in {"cc_scan", "cc_load", "cc_store", "cc_stamp", "cc_leave"}

\* C1: while a thread is inside add_to_cache's critical section, no other
\* thread is inside check_cache's scan or inside add_to_cache's critical section.
C1_AdmissionExclusive ==
    \A t \in Threads :
        InAdmission(t) =>
            \A x \in Threads \ {t} : ~InLookup(x) /\ ~InAdmission(x)

\* an admission in its critical section while another thread waits at the gate
C1_Witness ==
    \E t \in Threads : \E x \in Threads \ {t} :
        /\ InAdmission(t)
        /\ pc[x] \in {"cc_first", "add_enter"}

\* C2: current_size never exceeds MAX_CACHE_SIZE.
C2_CapacityBound == current_size <= MAX_CACHE_SIZE

\* an admission that had to evict has linked its node and the cache is full
C2_Witness ==
    \E t \in Threads :
        /\ pc[t] = "add_leave"
        /\ evicted # NoEviction
        /\ current_size = MAX_CACHE_SIZE

\* C3: no two nodes of the list share a url.
C3_UniqueKeys ==
    \A i \in 1..Len(cache) : \A j \in 1..Len(cache) :
        i # j => cache[i].url # cache[j].url

\* C4: from check_cache's return of a node until process_request has written
\* its content, the node stays linked in the list (it is not freed).
C4_HitEntryStable ==
    \A t \in Threads : pc[t] = "serve" => IsLinked(cache, cached[t])

\* C5: the body add_to_cache stores is the concatenation of the chunks read
\* from the origin (which are the bytes written to the client).
C5_AdmittedBodyIsStream ==
    \A t \in Threads :
        pc[t] = "add_leave" =>
            /\ cache[1].content_size = Len(client_out[t].bytes)
            /\ SubSeq(cache[1].content, 1, cache[1].content_size) = client_out[t].bytes

\* C6: the node remove_oldest frees has the least access_time of the nodes
\* linked just before.
C6_VictimIsOldest ==
    evicted # NoEviction => \A x \in evicted.times : evicted.time <= x

\* an eviction that had nodes of different access times to choose from
C6_Witness ==
    /\ evicted # NoEviction
    /\ Cardinality(evicted.times) >= 2

\* C7: the step of a hit that stamps the matched node leaves its access_time
\* greater than it was.
C7_HitRefreshIncreases ==
    [][\A t \in Threads :
          (pc[t] = "cc_stamp" /\ pc'[t] = "cc_leave") =>
              LET i == IndexOfId(cache, cached[t]) IN
              cache'[i].access_time > cache[i].access_time]_vars

\* C8: every update of access_counter (the store of ++access_counter, in a
\* hit or in an admission) leaves it greater than it was.
C8_CounterIncreases ==
    [][\A t \in Threads :
          (\/ pc[t] = "cc_store" /\ pc'[t] = "cc_stamp"
           \/ pc[t] = "add_loop" /\ pc'[t] = "add_leave") =>
              access_counter' > access_counter]_vars

\* the matching rule as the specification words it
RuleMatches(key, query) ==
    \/ key = query
    \/ /\ query[Len(query)] = "/"
       /\ key = SubSeq(query, 1, Len(query) - 1)

\* C9: check_cache returns a node exactly when some node's url equals the
\* query, or the query ends in '/' and the url is the query without it.
C9_HitIffRuleMatches ==
    \A t \in Threads :
        pc[t] = "cc_left" =>
            ((cached[t] # NULL) <=>
                \E i \in 1..Len(cache) : RuleMatches(cache[i].url, uri[t]))

\* C10 as stated: a request whose method is not GET gets the 501 page and
\* ends, with no lookup and no origin connection.
C10_NonGetRejected ==
    \A t \in Threads :
        (method[t] # <<>> /\ pc[t] # "validate" /\ method[t] # GET) =>
            /\ pc[t] = "close"
            /\ client_out[t] = [err |-> "501", bytes |-> <<>>]
            /\ ~probed[t]
            /\ ~opened[t]

\* C10 amended: a request whose method differs from GET when compared
\* ignoring letter case gets the 501 page and ends, with no lookup and no
\* origin connection.
C10_NonGetIgnoringCaseRejected ==
    \A t \in Threads :
        (method[t] # <<>> /\ pc[t] # "validate" /\ strcasecmp(method[t], GET) # 0) =>
            /\ pc[t] = "close"
            /\ client_out[t] = [err |-> "501", bytes |-> <<>>]
            /\ ~probed[t]
            /\ ~opened[t]

\* a POST request has been answered
C10_Witness ==
    \E t \in Threads :
        /\ method[t] = <<"P", "O", "S", "T">>
        /\ pc[t] = "close"
        /\ client_out[t].err = "501"

\* a thread whose lookup has returned (it is no longer inside check_cache)
LookupReturned(t) ==
    pc[t] \notin {"cc_enter", "cc_first", "cc_entered", "cc_scan", "cc_load",
                  "cc_store", "cc_stamp", "cc_leave", "cc_left"}

\* C11: after a hit the pipeline only writes to the client and ends: no
\* origin connection, no header block, no admission.
C11_HitGoesToDone ==
    \A t \in Threads :
        (cached[t] # NULL /\ LookupReturned(t)) =>
            /\ pc[t] \in {"serve", "close"}
            /\ ~opened[t]
            /\ server_fd[t] = "none"
            /\ server_out[t] = <<>>
            /\ client_out[t].err = "none"

\* a hit has written a body and reached the end of process_request
C11_Witness ==
    \E t \in Threads :
        /\ cached[t] # NULL
        /\ pc[t] = "close"
        /\ client_out[t].bytes # <<>>

IsHeader(line, name) ==
    /\ Len(line) > Len(name)
    /\ \A i \in 1..Len(name) : Lower(line[i]) = name[i]
    /\ line[Len(name) + 1] = ":"

HeadersNamed(out, name) == {i \in 1..Len(out) : IsHeader(out[i], name)}

\* C13: the block sent to the origin holds exactly one Host (that of the
\* URI, here a bare host name), one User-Agent, one Connection and one Proxy-Connection header, each
\* with the fixed value.
C13_OneOfEachHeader ==
    \A t \in Threads :
        pc[t] = "stream" =>
            \A h \in {[name |-> <<"h", "o", "s", "t">>, line |-> <<"H", "o", "s", "t", ":">> \o uri[t]],
                       [name |-> <<"u", "s", "e", "r", "-", "a", "g", "e", "n", "t">>, line |-> user_agent],
                       [name |-> <<"c", "o", "n", "n", "e", "c", "t", "i", "o", "n">>, line |-> connection_hdr],
                       [name |-> <<"p", "r", "o", "x", "y", "-", "c", "o", "n", "n", "e", "c", "t", "i", "o", "n">>, line |-> proxy_connection]} :
                /\ Cardinality(HeadersNamed(server_out[t], h.name)) = 1
                /\ \A i \in HeadersNamed(server_out[t], h.name) : server_out[t][i] = h.line

\* the sum of content_size over the nodes of a list
RECURSIVE SumSizes(_)
SumSizes(list) ==
    IF list = <<>> THEN 0 ELSE Head(list).content_size + SumSizes(Tail(list))

\* C14: whenever no thread is inside add_to_cache's critical section,
\* current_size is the sum of content_size over the linked nodes.
C14_SizeIsSum ==
    (\A t \in Threads : ~InAdmission(t)) => current_size = SumSizes(cache)

\* two full-size admissions have returned, the second after an eviction
C14_Witness ==
    /\ \A t \in Threads : ~InAdmission(t)
    /\ \E t, x \in Threads :
         /\ t # x
         /\ pc[t] = "close" /\ pc[x] = "close"
         /\ opened[t] /\ opened[x]
         /\ total_size[t] = MAX_OBJECT_SIZE /\ total_size[x] = MAX_OBJECT_SIZE
    /\ Len(cache) = 1
    /\ current_size = MAX_OBJECT_SIZE

\* C15: a failed connect to the origin gives that client a 502 page and closes
\* that connection, and neither the process nor another connection ends.
C15_ConnectFailureIs502 ==
    \A t \in Threads :
        server_fd[t] = "bad" =>
            /\ pc[t] = "close"
            /\ client_out[t].err = "502"
            /\ \A x \in Threads : pc[x] # "exited"

\* the threads holding read_lock
HoldingReadLock == {t \in Threads : pc[t] \in {"cc_first", "cc_entered", "cc_left"}}

\* the threads counted in readers
CountedReaders ==
    {t \in Threads : pc[t] \in {"cc_first", "cc_entered", "cc_scan", "cc_load",
                                 "cc_store", "cc_stamp", "cc_leave"}}

\* C16: when process_request has returned the origin socket is closed if it
\* was opened, when the thread has ended the client socket is closed, and the
\* gate is held only by threads that are inside check_cache or add_to_cache.
C16_ExitsReleaseEverything ==
    /\ \A t \in Threads :
         /\ pc[t] = "close" =>
               /\ server_fd[t] \in {"none", "closed"}
               /\ opened[t] <=> server_fd[t] = "closed"
         /\ pc[t] = "idle" => client_fd[t] = "closed" /\ server_fd[t] = "none"
    /\ read_lock = 1 - Cardinality(HoldingReadLock)
    /\ readers = Cardinality(CountedReaders)
    /\ write_lock = IF \/ \E t \in Threads : InAdmission(t)
                       \/ \E t \in CountedReaders : pc[t] # "cc_first"
                    THEN 0 ELSE 1

\* every listed exit has been taken: after three connections the threads have
\* ended or returned, one of them from a completed miss
C16_Witness ==
    /\ accepted = MaxConns
    /\ \A t \in Threads : pc[t] \in {"idle", "close"}
    /\ \E t \in Threads :
         pc[t] = "close" /\ opened[t] /\ server_fd[t] = "closed" /\ client_fd[t] = "open"
    /\ \E t \in Threads : pc[t] = "idle" /\ client_fd[t] = "closed"
    /\ read_lock = 1 /\ write_lock = 1 /\ readers = 0

\* C17: any two distinct linked nodes have different access_time values.
C17_NoTies ==
    \A i, j \in 1..Len(cache) :
        i # j => cache[i].access_time # cache[j].access_time

\* C18: every linked node has content_size at most MAX_OBJECT_SIZE, whatever
\* sizes add_to_cache is called with.
C18_EntriesWithinObjectSize ==
    \A i \in 1..Len(cache) : cache[i].content_size <= MAX_OBJECT_SIZE

\* a call with a size over MAX_OBJECT_SIZE has returned and linked nothing,
\* beside an entry of full size
C18_Witness ==
    \E t \in Threads :
        /\ pc[t] = "close"
        /\ total_size[t] > MAX_OBJECT_SIZE
        /\ ScanFrom(cache, uri[t], 1) = 0
        /\ \E i \in 1..Len(cache) : cache[i].content_size = MAX_OBJECT_SIZE

\* C19: under fair scheduling every started check_cache returns, to the hit or
\* to the miss path, and every started add_to_cache returns.
C19_GateCallsReturn ==
    \A t \in Threads :
        /\ (pc[t] = "cc_enter") ~> (pc[t] \in {"serve", "forward"})
        /\ (pc[t] = "add_enter") ~> (pc[t] = "close")

\* an admission waits for write_lock while the other thread is a reader
C19_Witness ==
    \E t, x \in Threads :
        /\ pc[t] = "add_enter"
        /\ write_lock = 0
        /\ InLookup(x)

\* C20: a chunk of n bytes is copied into object_buffer at offset total_size
\* only when total_size >= 0 and total_size + n <= MAX_OBJECT_SIZE.
C20_CopiesStayInBuffer ==
    [][\A t \in Threads :
         LET n == Len(client_out'[t].bytes) - Len(client_out[t].bytes) IN
         (/\ pc[t] = "stream" /\ pc'[t] = "stream"
          /\ n > 0
          /\ CopyTest(total_size[t], n)) =>
             /\ total_size[t] >= 0
             /\ total_size[t] + n <= MAX_OBJECT_SIZE]_vars

====
